---- MODULE Spec2Model ----
(***************************************************************************)
(* Model of EnhancedAnalysisEngine                                         *)
(* (src/src/services/enhanced_analysis_engine.py): the analysis pipeline   *)
(* generate_comprehensive_analysis and the helpers it calls.               *)
(*                                                                         *)
(* The three collaborators (search_manager, content_extractor, ai_manager) *)
(* are the environment: every call to one of them is a step whose outcome  *)
(* (raise, empty, a value) is chosen nondeterministically.  The extraction *)
(* collaborator answers as a function of the URL, fixed for one run.       *)
(***************************************************************************)
EXTENDS Integers, Sequences, FiniteSets, TLC

VARIABLES
    data,             \* the request mapping: which optional keys it carries
    systems_enabled,  \* self.systems_enabled (ai_manager, search_manager)
    extractor,        \* behaviour of content_extractor.extract_content per URL
    pc,               \* position of the run inside the engine's code
    research_data,    \* the bundle built by _collect_comprehensive_data
    cur,              \* the slice of results the extraction loop iterates
    i,                \* index of the extraction loop in cur
    q,                \* index of the contextual query loop (1..3)
    calls,            \* collaborator calls issued so far, in order
    ai_response,      \* value returned by ai_manager.generate_analysis
    ai_analysis,      \* result of _perform_comprehensive_ai_analysis
    report,           \* mapping returned by generate_comprehensive_analysis
    outcome,          \* "running", "returned" or "raised"
    error,            \* str(e) of the exception the controller caught
    swallowed,        \* exceptions caught inside the stages, in order
    parts,            \* how the text of a stand-alone _process_ai_response call is built
    txt,              \* input text of that call
    args,             \* arguments of a stand-alone call of another helper
    out               \* result of a stand-alone call

vars == <<data, systems_enabled, extractor, pc, research_data, cur, i, q,
          calls, ai_response, ai_analysis, report, outcome, error, swallowed,
          parts, txt, args, out>>

(***************************************************************************)
(* Bounds of the model                                                     *)
(***************************************************************************)
LongLen == 16        \* length of the longest multi-provider result list
MaxTextLen == 4      \* longest raw model text explored symbol by symbol
LongWidth == 600     \* characters of the long prose chunk "L"

(***************************************************************************)
(* Program constants                                                       *)
(***************************************************************************)
MultiExtractCap == 15     \* search_results[:15]
ContextExtractCap == 3    \* context_results[:3]
NumContextQueries == 3    \* len(contextual_queries)
RawCap == 1000            \* text[:1000]
EmergencyScore == 25      \* "quality_score": 25.0
MaxScore == 100           \* max_score = 100.0

Min(a, b) == IF a <= b THEN a ELSE b

(***************************************************************************)
(* Search results.  A result is a mapping with url, title, snippet and     *)
(* source; `keys` tells which of them the item really carries: "all",      *)
(* "nourl" (reading item['url'] raises KeyError) or "nosnippet".           *)
(***************************************************************************)
Urls == {"u1", "u2", "u3", "u4", "u5", "u6"}
UrlSeq == <<"u1", "u2", "u3", "u4", "u5", "u6">>

TitleOf(u) == CASE u = "u1" -> "t1" [] u = "u2" -> "t2" [] u = "u3" -> "t3"
                [] u = "u4" -> "t4" [] u = "u5" -> "t5" [] u = "u6" -> "t6"
                [] OTHER -> "t?"

R(u, s) == [url |-> u, title |-> TitleOf(u), source |-> s, keys |-> "all"]
NoUrl(s) == [url |-> "?", title |-> "t?", source |-> s, keys |-> "nourl"]
NoSnippet(u, s) == [url |-> u, title |-> TitleOf(u), source |-> s, keys |-> "nosnippet"]

LongList == [k \in 1..LongLen |->
               R(UrlSeq[((k - 1) % 6) + 1], IF k % 2 = 0 THEN "p1" ELSE "p2")]

\* lists search_manager.multi_search may return
MultiReplies == { <<>>,
                  <<R("u1", "p1"), R("u2", "p2")>>,
                  <<R("u1", "p1"), NoUrl("p1"), R("u2", "p2")>>,
                  <<NoSnippet("u2", "p2")>>,
                  LongList }

\* lists search_manager.search may return for contextual query k
ContextReplies(k) == { <<>>,
                       <<R(UrlSeq[k], "p3"), R("u1", "p1"), R("u2", "p2"), R(UrlSeq[k + 3], "p3")>> }

(***************************************************************************)
(* content_extractor.extract_content(url): the text of the page, an empty  *)
(* value, or an exception.  A profile names the URLs that fail and how.    *)
(***************************************************************************)
ExtractorProfiles ==
    { [bad |-> {}, mode |-> "empty"] } \cup
    { [bad |-> b, mode |-> m] : b \in {{"u1"}, {"u2"}, Urls}, m \in {"empty", "raise"} }

ContentLen(u) == CASE u = "u1" -> 1 [] u = "u2" -> 2 [] u = "u3" -> 3
                  [] u = "u4" -> 4 [] u = "u5" -> 5 [] u = "u6" -> 6
                  [] OTHER -> 1

extract_content(u) ==
    IF u \in extractor.bad
      THEN [kind |-> extractor.mode, len |-> 0]
      ELSE [kind |-> "text", len |-> ContentLen(u)]

(***************************************************************************)
(* The bundle                                                              *)
(***************************************************************************)
EmptyBundle == [search_results |-> <<>>, extracted_content |-> <<>>,
                sources |-> <<>>, total_content_length |-> 0]

Descriptor(r) == [url |-> r.url, title |-> r.title, source |-> r.source]

\* the page appended after a successful extraction; cq is the contextual
\* query that produced it (0 for the multi-provider search)
Page(r, len, cq) == [url |-> r.url, title |-> r.title, content_len |-> len,
                     source |-> r.source, context_query |-> cq]

\* one collaborator call: the operation, its argument and how it ended
\* ("raise", "empty" for an empty or falsy value, else the kind of value)
Call(op, arg, res) == [op |-> op, arg |-> arg, res |-> res]

HasUrl(r) == r.keys # "nourl"

\* the three contextual queries of lines 125-129
ContextQuery(k) == CASE k = 1 -> "mercado tendencias"
                     [] k = 2 -> "analise competitiva"
                     [] OTHER -> "dados estatisticos"


(***************************************************************************)
(* JSON values and analysis mappings.  A value is a record with its Python *)
(* type t and its entries v (items of a list, members of a dict, chunks of *)
(* a string; a number is 0 iff v is empty).  An entry is a record too.     *)
(***************************************************************************)
Ins(k, a, b, m) == [k |-> k, a |-> a, b |-> b, m |-> m]
Item(k) == Ins(k, 0, 0, "")
JV(t, v) == [t |-> t, v |-> v]

Truthy(val) == val.v # <<>>              \* bool(value)
HasLen(val) == val.t \in {"list", "dict", "str"}   \* len(value) is defined

EmptyMap == [k \in {} |-> JV("null", <<>>)]
Put(m, k, val) == [x \in (DOMAIN m) \cup {k} |-> IF x = k THEN val ELSE m[x]]
Get(m, k, default) == IF k \in DOMAIN m THEN m[k] ELSE default

\* data.get('segmento', default) as it appears inside the generated strings
Seg(d) == IF d.segmento THEN "segmento" ELSE "default"

(***************************************************************************)
(* Raw model text: a sequence of chunks.                                   *)
(*   "F"  three backticks           "j"  the letters json                  *)
(*   "w"  whitespace                "p"  prose without backticks           *)
(*   "L"  a long run of prose       "{" "}"  the braces of a JSON object   *)
(*   "k.."  one member of a JSON object (key and value)                    *)
(*   "ARR" "NUM" "STR" "NULL"  a complete JSON document that is no object  *)
(* "F" directly followed by "j" is the JSON-tagged fence marker.  The      *)
(* members "kF" and "kJ" hold a string value that contains the text of a   *)
(* generic, resp. JSON-tagged, fence marker.                               *)
(***************************************************************************)
PairSyms == {"kA", "kE", "kEP", "kK", "kI5", "kI1", "kI0", "kIs", "kIn", "kU", "kUs",
             "kW", "kP", "kM", "kMeta", "kD", "kC", "kS", "kRaw", "kF", "kJ",
             "kAC", "kMP", "kPA", "kU25", "kIM", "kDP"}
ScalarDocs == {"ARR", "NUM", "STR", "NULL"}

AiList(n) == [k \in 1..n |-> Ins("ai_insight", k, 0, "")]

\* line 387: the schema asks for a list of 25 to 30 insights
SchemaInsights == 25

\* the member a chunk of PairSyms stands for
PairOf(s) ==
    CASE s = "kA"    -> [key |-> "avatar_ultra_detalhado", val |-> JV("dict", <<Item("ai_avatar")>>)]
      [] s = "kE"    -> [key |-> "escopo", val |-> JV("dict", <<Item("ai_escopo")>>)]
      [] s = "kEP"   -> [key |-> "escopo_posicionamento", val |-> JV("dict", <<Item("ai_escopo")>>)]
      [] s = "kK"    -> [key |-> "estrategia_palavras_chave", val |-> JV("dict", <<Item("ai_keywords")>>)]
      [] s = "kI5"   -> [key |-> "insights_exclusivos", val |-> JV("list", AiList(5))]
      [] s = "kI1"   -> [key |-> "insights_exclusivos", val |-> JV("list", AiList(1))]
      [] s = "kI0"   -> [key |-> "insights_exclusivos", val |-> JV("list", <<>>)]
      [] s = "kIs"   -> [key |-> "insights_exclusivos", val |-> JV("str", <<Item("char"), Item("char")>>)]
      [] s = "kIn"   -> [key |-> "insights_exclusivos", val |-> JV("num", <<Item("7")>>)]
      [] s = "kU"    -> [key |-> "insights_exclusivos_ultra", val |-> JV("list", AiList(2))]
      [] s = "kUs"   -> [key |-> "insights_exclusivos_ultra", val |-> JV("str", <<Item("char")>>)]
      [] s = "kW"    -> [key |-> "pesquisa_web_detalhada", val |-> JV("dict", <<>>)]
      [] s = "kP"    -> [key |-> "pesquisa_profunda", val |-> JV("dict", <<Item("ai_pesquisa")>>)]
      [] s = "kM"    -> [key |-> "metadata_ai", val |-> JV("str", <<Item("char")>>)]
      [] s = "kMeta" -> [key |-> "metadata", val |-> JV("dict", <<Item("ai_metadata")>>)]
      [] s = "kD"    -> [key |-> "dados_pesquisa_real", val |-> JV("dict", <<Item("ai_dados")>>)]
      [] s = "kC"    -> [key |-> "conteudo_extraido_real", val |-> JV("dict", <<Item("ai_conteudo")>>)]
      [] s = "kS"    -> [key |-> "sistemas_utilizados", val |-> JV("dict", <<Item("ai_sistemas")>>)]
      [] s = "kRaw"  -> [key |-> "raw_ai_response", val |-> JV("str", <<Item("char")>>)]
      [] s = "kF"    -> [key |-> "nota", val |-> JV("str", <<Item("fence")>>)]
      [] s = "kJ"    -> [key |-> "nota_json", val |-> JV("str", <<Item("fence_json")>>)]
      [] s = "kAC"   -> [key |-> "analise_concorrencia_profunda", val |-> JV("list", <<Item("ai_concorrente")>>)]
      [] s = "kMP"   -> [key |-> "metricas_performance_detalhadas", val |-> JV("dict", <<Item("ai_metricas")>>)]
      [] s = "kPA"   -> [key |-> "plano_acao_detalhado", val |-> JV("dict", <<Item("ai_plano")>>)]
      [] s = "kU25"  -> [key |-> "insights_exclusivos_ultra", val |-> JV("list", AiList(SchemaInsights))]
      [] s = "kIM"   -> [key |-> "inteligencia_mercado", val |-> JV("dict", <<Item("ai_inteligencia")>>)]
      [] s = "kDP"   -> [key |-> "dados_pesquisa", val |-> JV("dict", <<Item("ai_dados_pesquisa")>>)]

\* number of characters of a chunk
Width(s) == CASE s = "F" -> 3 [] s = "j" -> 4 [] s = "w" -> 1 [] s = "p" -> 1
              [] s = "L" -> LongWidth [] s = "{" -> 1 [] s = "}" -> 1
              [] s \in ScalarDocs -> 4 [] OTHER -> 12

RECURSIVE CharLen(_)
CharLen(s) == IF s = <<>> THEN 0 ELSE Width(Head(s)) + CharLen(Tail(s))

\* text[:n], as the chunks it keeps and how many characters of each
RECURSIVE TakeChars(_, _)
TakeChars(s, n) ==
    IF s = <<>> \/ n <= 0 THEN <<>>
    ELSE <<Ins("chunk", Min(Width(Head(s)), n), 0, Head(s))>>
           \o TakeChars(Tail(s), n - Width(Head(s)))

RECURSIVE EntriesLen(_)
EntriesLen(v) == IF v = <<>> THEN 0 ELSE Head(v).a + EntriesLen(Tail(v))

\* str.strip()
RECURSIVE LStrip(_)
LStrip(s) == IF s # <<>> /\ Head(s) = "w" THEN LStrip(Tail(s)) ELSE s
RECURSIVE RStrip(_)
RStrip(s) == IF s # <<>> /\ s[Len(s)] = "w" THEN RStrip(SubSeq(s, 1, Len(s) - 1)) ELSE s
Strip(s) == RStrip(LStrip(s))

\* occurrences of the two markers
IsFence(s, k) == s[k] \in {"F", "kF", "kJ"}
IsJsonFence(s, k) == \/ s[k] = "F" /\ k < Len(s) /\ s[k + 1] = "j"
                     \/ s[k] = "kJ"
HasFence(s) == \E k \in 1..Len(s) : IsFence(s, k)          \* "```" in text
HasJsonFence(s) == \E k \in 1..Len(s) : IsJsonFence(s, k)  \* "```json" in text
FindJsonFence(s) == CHOOSE k \in 1..Len(s) :
                      IsJsonFence(s, k) /\ \A l \in 1..(k - 1) : ~IsJsonFence(s, l)
FindFence(s) == CHOOSE k \in 1..Len(s) :
                      IsFence(s, k) /\ \A l \in 1..(k - 1) : ~IsFence(s, l)
RFindFence(s) == CHOOSE k \in 1..Len(s) :
                      IsFence(s, k) /\ \A l \in (k + 1)..Len(s) : ~IsFence(s, l)

\* Between with the start placed three characters after the marker even when
\* the marker is the JSON-tagged one (find("```json") + 3)
Between_MarkerOnly(s, a, skip, b) ==
    IF b <= a THEN <<>>
    ELSE (IF s[a] = "F" THEN SubSeq(s, a + 1, b - 1)
                        ELSE <<"frag">> \o SubSeq(s, a + 1, b - 1))
         \o (IF s[b] = "F" THEN <<>> ELSE <<"frag">>)

\* text[start:end] for a start just after the marker at a (which spans
\* `skip` chunks when it is a real marker) and an end at the marker at b.
\* A cut that falls inside a member leaves a fragment of it, "frag".
Between(s, a, skip, b) ==
    IF b <= a THEN <<>>
    ELSE (IF s[a] = "F" THEN SubSeq(s, a + skip, b - 1)
                        ELSE <<"frag">> \o SubSeq(s, a + 1, b - 1))
         \o (IF s[b] = "F" THEN <<>> ELSE <<"frag">>)

\* CleanText taking the rest of the text when the opening marker is also
\* the last marker (a block that is never closed)
CleanText_ToEndWhenUnclosed(raw) ==
    LET clean_text == Strip(raw) IN
      IF HasJsonFence(clean_text)
        THEN IF RFindFence(clean_text) = FindJsonFence(clean_text)
               THEN Strip(SubSeq(clean_text, FindJsonFence(clean_text) + 2, Len(clean_text)))
               ELSE Strip(Between(clean_text, FindJsonFence(clean_text), 2,
                                  RFindFence(clean_text)))
      ELSE IF HasFence(clean_text)
        THEN IF RFindFence(clean_text) = FindFence(clean_text)
               THEN Strip(SubSeq(clean_text, FindFence(clean_text) + 1, Len(clean_text)))
               ELSE Strip(Between(clean_text, FindFence(clean_text), 1, RFindFence(clean_text)))
      ELSE clean_text

\* lines 416-425: the text handed to json.loads
CleanText(raw) ==
    LET clean_text == Strip(raw) IN
      IF HasJsonFence(clean_text)
        THEN Strip(Between(clean_text, FindJsonFence(clean_text), 2, RFindFence(clean_text)))
      ELSE IF HasFence(clean_text)
        THEN Strip(Between(clean_text, FindFence(clean_text), 1, RFindFence(clean_text)))
      ELSE clean_text

\* the mapping a sequence of members denotes (a repeated key keeps the last)
RECURSIVE ObjOf(_)
ObjOf(body) ==
    IF body = <<>> THEN EmptyMap
    ELSE LET rest == ObjOf(SubSeq(body, 1, Len(body) - 1))
             last == body[Len(body)]
         IN IF last = "w" THEN rest ELSE Put(rest, PairOf(last).key, PairOf(last).val)

\* json.loads: an object, another JSON value, or JSONDecodeError
json_loads(s) ==
    IF Len(s) = 1 /\ s[1] \in ScalarDocs
      THEN [kind |-> "value", val |-> EmptyMap]
    ELSE IF /\ Len(s) >= 2 /\ s[1] = "{" /\ s[Len(s)] = "}"
            /\ \A k \in 2..(Len(s) - 1) : s[k] \in PairSyms \cup {"w"}
      THEN [kind |-> "object", val |-> ObjOf(SubSeq(s, 2, Len(s) - 1))]
    ELSE [kind |-> "JSONDecodeError", val |-> EmptyMap]

MetadataAi == JV("dict", <<Item("generated_at"), Item("provider_used"), Item("version"),
                           Item("analysis_type"), Item("data_source"), Item("quality_guarantee")>>)

\* _extract_structured_analysis
ExtractStructuredAnalysis(text, d) ==
    [avatar_ultra_detalhado |-> JV("dict", <<Ins("heuristic_avatar", 0, 0, Seg(d))>>),
     insights_exclusivos_ultra |->
        JV("list", [k \in 1..5 |-> Ins("heuristic_insight", k, 0, Seg(d))]),
     raw_ai_response |-> JV("str", TakeChars(text, RawCap))]

\* _process_ai_response: the mapping returned, or the exception raised
ProcessAiResponse(raw, d) ==
    LET parsed == json_loads(CleanText(raw)) IN
      CASE parsed.kind = "object" ->
             [kind |-> "ok", val |-> Put(parsed.val, "metadata_ai", MetadataAi)]
        [] parsed.kind = "value" ->
             [kind |-> "TypeError", val |-> EmptyMap]
        [] OTHER ->
             [kind |-> "ok", val |-> ExtractStructuredAnalysis(raw, d)]


(***************************************************************************)
(* _generate_basic_analysis                                                *)
(***************************************************************************)
BasicInsights(d) ==
    <<Ins("basic_oportunidades", 0, 0, Seg(d)), Item("basic_digitalizacao"),
      Item("basic_marketing"), Item("basic_personalizacao"), Item("basic_mode_warning")>>

GenerateBasicAnalysis(d) ==
    [avatar_ultra_detalhado |-> JV("dict", <<Item("basic_avatar")>>),
     escopo |-> JV("dict", <<Item("basic_escopo")>>),
     estrategia_palavras_chave |-> JV("dict", <<Ins("basic_keywords", 0, 0, Seg(d))>>),
     insights_exclusivos |-> JV("list", BasicInsights(d))]

(***************************************************************************)
(* _calculate_quality_score: the score, or the exception len() raises      *)
(***************************************************************************)
\* the section list with the positioning key of the prompt's schema
MainSections_SchemaKey == {"avatar_ultra_detalhado", "escopo_posicionamento",
                           "estrategia_palavras_chave", "insights_exclusivos"}

MainSections == {"avatar_ultra_detalhado", "escopo", "estrategia_palavras_chave",
                 "insights_exclusivos"}

InsightPoints(n) == IF n >= 5 THEN 20 ELSE IF n >= 3 THEN 15 ELSE IF n >= 1 THEN 10 ELSE 0

CalculateQualityScore(analysis) ==
    LET sections == 15 * Cardinality({sec \in MainSections :
                                        sec \in DOMAIN analysis /\ Truthy(analysis[sec])})
        research == (IF "pesquisa_web_detalhada" \in DOMAIN analysis THEN 10 ELSE 0)
                    + (IF "pesquisa_profunda" \in DOMAIN analysis THEN 10 ELSE 0)
        insights == Get(analysis, "insights_exclusivos", JV("list", <<>>))
    IN IF HasLen(insights)
         THEN [kind |-> "ok",
               val |-> Min(sections + research + InsightPoints(Len(insights.v)), MaxScore)]
         ELSE [kind |-> "TypeError", val |-> 0]

(***************************************************************************)
(* Provider status as the collaborators report it: one flag per provider   *)
(***************************************************************************)
ProviderStatus(c) == IF c = "ai" THEN <<TRUE, FALSE>> ELSE <<TRUE, TRUE>>
Available(st) == Cardinality({k \in DOMAIN st : st[k]})

(***************************************************************************)
(* _generate_real_exclusive_insights, given the two status snapshots       *)
(***************************************************************************)
SourcesOf(results) == {results[k].source : k \in DOMAIN results}
DomainOf(u) == CASE u = "u1" -> "d1" [] u = "u2" -> "d2" [] u = "u3" -> "d3"
                [] u = "u4" -> "d4" [] u = "u5" -> "d5" [] u = "u6" -> "d6"
                [] OTHER -> "d?"
\* url.split('/'): "u0" is a URL without any '/', every other one is
\* scheme://host/page ("u7" is a second page of the host of "u1")
SplitUrl(u) == IF u = "u0" THEN <<u>>
               ELSE <<"https:", "", DomainOf(IF u = "u7" THEN "u1" ELSE u), u>>
\* lines 569-575: a result whose url cannot be read, or whose split has no
\* third part, is skipped (bare except)
DomainsOf(results) ==
    {SplitUrl(results[k].url)[3] :
       k \in {l \in DOMAIN results : HasUrl(results[l]) /\ Len(SplitUrl(results[l].url)) >= 3}}

\* GenerateRealExclusiveInsights with the diversity test written len(domains) >= 5
GenerateRealExclusiveInsights_FromFive(rd, ai_status, search_status) ==
    LET a == IF rd.search_results # <<>>
               THEN <<Ins("pesquisa_real", Len(rd.search_results),
                          Cardinality(SourcesOf(rd.search_results)), "")>>
               ELSE <<>>
        b == IF rd.extracted_content # <<>>
               THEN <<Ins("conteudo_real", Len(rd.extracted_content),
                          rd.total_content_length, "")>>
               ELSE <<>>
        c == IF rd.search_results # <<>> /\ Cardinality(DomainsOf(rd.search_results)) >= 5
               THEN <<Ins("diversidade_fontes", Cardinality(DomainsOf(rd.search_results)), 0, "")>>
               ELSE <<>>
        d == <<Ins("sistema_robusto", Available(ai_status), Available(search_status), ""),
               Item("garantia_qualidade")>>
        all == a \o b \o c \o d
    IN SubSeq(all, 1, Min(5, Len(all)))

GenerateRealExclusiveInsights(rd, ai_status, search_status) ==
    LET a == IF rd.search_results # <<>>
               THEN <<Ins("pesquisa_real", Len(rd.search_results),
                          Cardinality(SourcesOf(rd.search_results)), "")>>
               ELSE <<>>
        b == IF rd.extracted_content # <<>>
               THEN <<Ins("conteudo_real", Len(rd.extracted_content),
                          rd.total_content_length, "")>>
               ELSE <<>>
        c == IF rd.search_results # <<>> /\ Cardinality(DomainsOf(rd.search_results)) > 5
               THEN <<Ins("diversidade_fontes", Cardinality(DomainsOf(rd.search_results)), 0, "")>>
               ELSE <<>>
        d == <<Ins("sistema_robusto", Available(ai_status), Available(search_status), ""),
               Item("garantia_qualidade")>>
        all == a \o b \o c \o d
    IN SubSeq(all, 1, Min(5, Len(all)))

(***************************************************************************)
(* _consolidate_comprehensive_analysis, in the pieces between its          *)
(* collaborator calls                                                      *)
(***************************************************************************)
UrlsOf(results) == {results[k].url : k \in DOMAIN results}

DadosPesquisaReal(rd) ==
    [t |-> "dict", v |-> <<Item("dados_pesquisa_real")>>,
     total_resultados |-> Len(rd.search_results),
     fontes_unicas |-> Cardinality(UrlsOf(rd.search_results)),
     provedores_utilizados |-> SourcesOf(rd.search_results),
     resultados_detalhados |-> rd.search_results]

ConteudoExtraidoReal(rd) ==
    [t |-> "dict", v |-> <<Item("conteudo_extraido_real")>>,
     total_paginas |-> Len(rd.extracted_content),
     total_caracteres |-> rd.total_content_length,
     paginas_processadas |->
        [k \in DOMAIN rd.extracted_content |->
           [url |-> rd.extracted_content[k].url, titulo |-> rd.extracted_content[k].title,
            tamanho_conteudo |-> rd.extracted_content[k].content_len,
            fonte |-> rd.extracted_content[k].source]]]

\* WithResearch storing the search block under the key the scorer rewards
WithResearch_ScoredKey(analysis, rd) ==
    LET c1 == IF rd.search_results # <<>>
                THEN Put(analysis, "pesquisa_web_detalhada", DadosPesquisaReal(rd))
                ELSE analysis
    IN IF rd.extracted_content # <<>>
         THEN Put(c1, "conteudo_extraido_real", ConteudoExtraidoReal(rd))
         ELSE c1

\* WithResearch without the tests of lines 504 and 512: both blocks always
WithResearch_Unconditional(analysis, rd) ==
    Put(Put(analysis, "dados_pesquisa_real", DadosPesquisaReal(rd)),
        "conteudo_extraido_real", ConteudoExtraidoReal(rd))

\* lines 501-524: the copy of the analysis enriched with the research blocks
WithResearch(analysis, rd) ==
    LET c1 == IF rd.search_results # <<>>
                THEN Put(analysis, "dados_pesquisa_real", DadosPesquisaReal(rd))
                ELSE analysis
    IN IF rd.extracted_content # <<>>
         THEN Put(c1, "conteudo_extraido_real", ConteudoExtraidoReal(rd))
         ELSE c1

\* ExistingInsights with the two keys consulted in the other order
ExistingInsights_UltraFirst(consolidated) ==
    LET first == Get(consolidated, "insights_exclusivos_ultra", JV("list", <<>>))
    IN IF Truthy(first) THEN first
       ELSE Get(consolidated, "insights_exclusivos", JV("list", <<>>))

\* lines 529-531: the insight list already on the analysis
ExistingInsights(consolidated) ==
    LET first == Get(consolidated, "insights_exclusivos", JV("list", <<>>))
    IN IF Truthy(first) THEN first
       ELSE Get(consolidated, "insights_exclusivos_ultra", JV("list", <<>>))

\* lines 528-532: existing_insights + exclusive_insights, or TypeError
WithInsights(consolidated, exclusive) ==
    IF exclusive = <<>> THEN [kind |-> "ok", val |-> consolidated]
    ELSE IF ExistingInsights(consolidated).t = "list"
      THEN [kind |-> "ok",
            val |-> Put(consolidated, "insights_exclusivos",
                        JV("list", ExistingInsights(consolidated).v \o exclusive))]
      ELSE [kind |-> "TypeError", val |-> consolidated]

SistemasUtilizados(rd) ==
    [t |-> "dict", v |-> <<Item("sistemas_utilizados")>>,
     ai_providers |-> ProviderStatus("ai"),
     search_providers |-> ProviderStatus("search"),
     content_extraction |-> rd.extracted_content # <<>>,
     total_sources |-> Len(rd.sources),
     analysis_quality |-> "premium_real_data"]

\* _consolidate_comprehensive_analysis as one call, the two status reads
\* returning the snapshots given: the mapping returned, or the exception
ConsolidateComprehensiveAnalysis(rd, analysis, ai_status, search_status) ==
    IF \E k \in DOMAIN rd.search_results : ~HasUrl(rd.search_results[k])
      THEN [kind |-> "KeyError", val |-> EmptyMap]
    ELSE LET merged == WithInsights(WithResearch(analysis, rd),
                          GenerateRealExclusiveInsights(rd, ai_status, search_status))
         IN IF merged.kind = "ok"
              THEN [kind |-> "ok",
                    val |-> Put(merged.val, "sistemas_utilizados", SistemasUtilizados(rd))]
              ELSE [kind |-> "TypeError", val |-> EmptyMap]

\* Metadata with the score of the empty-analysis branch of line 66 always
Metadata_Unscored(final_analysis, rd, elapsed, enabled) ==
    [t |-> "dict", v |-> <<Item("metadata")>>,
     processing_time_seconds |-> elapsed,
     analysis_engine |-> "Emergency Fallback v2.0",
     quality_score |-> 0,
     data_sources_used |-> Len(rd.sources),
     ai_models_used |-> IF enabled.ai_manager THEN 1 ELSE 0]

\* lines 61-70; the second "analysis_engine" entry of the literal wins
Metadata(final_analysis, rd, elapsed, enabled) ==
    [t |-> "dict", v |-> <<Item("metadata")>>,
     processing_time_seconds |-> elapsed,
     analysis_engine |-> "Emergency Fallback v2.0",
     quality_score |-> IF final_analysis # EmptyMap
                         THEN CalculateQualityScore(final_analysis).val ELSE 0,
     data_sources_used |-> Len(rd.sources),
     ai_models_used |-> IF enabled.ai_manager THEN 1 ELSE 0]

(***************************************************************************)
(* _generate_fallback_analysis                                             *)
(***************************************************************************)
\* lines 674-676
FallbackBase(d, err) ==
    LET basic == GenerateBasicAnalysis(d) IN
      [basic EXCEPT !["insights_exclusivos"] =
         JV("list", @.v \o <<Ins("erro_processamento", 0, 0, err), Item("recomenda_nova_analise")>>)]

\* lines 678-689; the second "recommendation" entry of the literal wins
EmergencyMetadata ==
    [t |-> "dict", v |-> <<Item("metadata")>>,
     processing_time_seconds |-> 0,
     analysis_engine |-> "Emergency Fallback",
     quality_score |-> EmergencyScore,
     recommendation |-> "Execute nova analise com configuracao completa",
     ai_providers |-> ProviderStatus("ai"),
     search_providers |-> ProviderStatus("search")]

GenerateFallbackAnalysis(d, err) == Put(FallbackBase(d, err), "metadata", EmergencyMetadata)


(***************************************************************************)
(* Texts ai_manager.generate_analysis may return inside a run              *)
(***************************************************************************)
\* lines 232-405: a response that fills every top-level section of the
\* schema embedded in the prompt, in the JSON-tagged block the schema shows
SchemaText == <<"F", "j", "w", "{", "kA", "kEP", "kAC", "kK", "kMP", "kPA", "kU25", "kIM",
                "kDP", "}", "w", "F">>

ModelTexts ==
    { SchemaText,
      <<"F", "j", "w", "{", "kA", "kEP", "kK", "kU", "}", "w", "F">>,
      <<"{", "kA", "kE", "kK", "kI5", "kW", "kP", "}">>,
      <<"{", "kA", "kIs", "}">>,
      <<"{", "kI0", "kUs", "kD", "kC", "}">>,
      <<"p", "F", "{", "kI1", "kMeta", "kS", "}", "F">>,
      <<"F", "j", "{", "kA", "}">>,
      <<"ARR">>,
      <<"L", "L">> }

NoResult == [kind |-> "none", val |-> EmptyMap]
NoParts == [pre |-> <<>>, open |-> <<>>, doc |-> <<>>, close |-> <<>>, post |-> <<>>]
NoArg == [fn |-> "none", rd |-> EmptyBundle, analysis |-> EmptyMap,
          ai_status |-> <<>>, search_status |-> <<>>]

(***************************************************************************)
(* generate_comprehensive_analysis: one run                                *)
(***************************************************************************)
Init ==
    /\ data \in [query : BOOLEAN, segmento : BOOLEAN]
    /\ systems_enabled \in [ai_manager : BOOLEAN, search_manager : BOOLEAN]
    /\ extractor \in ExtractorProfiles
    /\ pc = "start"
    /\ research_data = EmptyBundle
    /\ cur = <<>>
    /\ i = 1
    /\ q = 1
    /\ calls = <<>>
    /\ ai_response = <<>>
    /\ ai_analysis = EmptyMap
    /\ report = EmptyMap
    /\ outcome = "running"
    /\ error = ""
    /\ swallowed = <<>>
    /\ parts = NoParts
    /\ txt = <<>>
    /\ args = NoArg
    /\ out = NoResult

env == <<data, systems_enabled, extractor, parts, txt, args, out>>

\* lines 41-47 and 86-92
Start ==
    /\ pc = "start"
    /\ research_data' = EmptyBundle
    /\ pc' = "multi_search"
    /\ UNCHANGED <<env, cur, i, q, calls, ai_response, ai_analysis, report, outcome,
                   error, swallowed>>

\* lines 95-100 and 117-118: the multi-provider search
MultiSearch ==
    /\ pc = "multi_search"
    /\ IF systems_enabled.search_manager /\ data.query
         THEN \/ /\ calls' = Append(calls, Call("multi_search", "query", "raise"))
                 /\ swallowed' = Append(swallowed, "search_error")
                 /\ pc' = "ctx_begin"
                 /\ UNCHANGED <<research_data, cur, i>>
              \/ \E results \in MultiReplies :
                       /\ calls' = Append(calls, Call("multi_search", "query",
                                                    IF results = <<>> THEN "empty" ELSE "list"))
                       /\ research_data' = [research_data EXCEPT !.search_results = results]
                       /\ cur' = SubSeq(results, 1, Min(MultiExtractCap, Len(results)))
                       /\ i' = 1
                       /\ pc' = "extract_multi"
                       /\ UNCHANGED swallowed
         ELSE /\ pc' = "ctx_begin"
              /\ UNCHANGED <<research_data, cur, i, calls, swallowed>>
    /\ UNCHANGED <<env, q, ai_response, ai_analysis, report, outcome, error>>

\* ExtractMulti keeping the page of a result whose extraction came back empty
ExtractMulti_KeepsEmpty ==
    /\ pc = "extract_multi"
    /\ IF i <= Len(cur)
         THEN IF ~HasUrl(cur[i])
           THEN /\ swallowed' = Append(swallowed, "search_error")
                /\ pc' = "ctx_begin"
                /\ UNCHANGED <<research_data, i, calls>>
           ELSE /\ calls' = Append(calls, Call("extract_content", cur[i].url,
                                               extract_content(cur[i].url).kind))
                /\ LET content == extract_content(cur[i].url) IN
                     CASE content.kind = "raise" ->
                            /\ swallowed' = Append(swallowed, "search_error")
                            /\ pc' = "ctx_begin"
                            /\ UNCHANGED <<research_data, i>>
                       [] content.kind = "empty" ->
                            /\ research_data' =
                                 [research_data EXCEPT
                                    !.extracted_content = Append(@, Page(cur[i], 0, 0))]
                            /\ i' = i + 1
                            /\ UNCHANGED <<pc, swallowed>>
                       [] OTHER ->
                            /\ research_data' =
                                 [research_data EXCEPT
                                    !.extracted_content = Append(@, Page(cur[i], content.len, 0)),
                                    !.total_content_length = @ + content.len]
                            /\ i' = i + 1
                            /\ UNCHANGED <<pc, swallowed>>
         ELSE /\ IF \A k \in DOMAIN research_data.search_results :
                        HasUrl(research_data.search_results[k])
                   THEN /\ research_data' =
                             [research_data EXCEPT !.sources =
                                [k \in DOMAIN research_data.search_results |->
                                   Descriptor(research_data.search_results[k])]]
                        /\ UNCHANGED swallowed
                   ELSE /\ swallowed' = Append(swallowed, "search_error")
                        /\ UNCHANGED research_data
              /\ pc' = "ctx_begin"
              /\ UNCHANGED <<i, calls>>
    /\ UNCHANGED <<env, cur, q, ai_response, ai_analysis, report, outcome, error>>

\* lines 103-118: one round of the extraction loop, or its end and line 114
ExtractMulti ==
    /\ pc = "extract_multi"
    /\ IF i <= Len(cur)
         THEN IF ~HasUrl(cur[i])
           THEN /\ swallowed' = Append(swallowed, "search_error")
                /\ pc' = "ctx_begin"
                /\ UNCHANGED <<research_data, i, calls>>
           ELSE /\ calls' = Append(calls, Call("extract_content", cur[i].url,
                                               extract_content(cur[i].url).kind))
                /\ LET content == extract_content(cur[i].url) IN
                     CASE content.kind = "raise" ->
                            /\ swallowed' = Append(swallowed, "search_error")
                            /\ pc' = "ctx_begin"
                            /\ UNCHANGED <<research_data, i>>
                       [] content.kind = "empty" ->
                            /\ i' = i + 1
                            /\ UNCHANGED <<research_data, pc, swallowed>>
                       [] OTHER ->
                            /\ research_data' =
                                 [research_data EXCEPT
                                    !.extracted_content = Append(@, Page(cur[i], content.len, 0)),
                                    !.total_content_length = @ + content.len]
                            /\ i' = i + 1
                            /\ UNCHANGED <<pc, swallowed>>
         ELSE /\ IF \A k \in DOMAIN research_data.search_results :
                        HasUrl(research_data.search_results[k])
                   THEN /\ research_data' =
                             [research_data EXCEPT !.sources =
                                [k \in DOMAIN research_data.search_results |->
                                   Descriptor(research_data.search_results[k])]]
                        /\ UNCHANGED swallowed
                   ELSE /\ swallowed' = Append(swallowed, "search_error")
                        /\ UNCHANGED research_data
              /\ pc' = "ctx_begin"
              /\ UNCHANGED <<i, calls>>
    /\ UNCHANGED <<env, cur, q, ai_response, ai_analysis, report, outcome, error>>

\* lines 121-129
ContextBegin ==
    /\ pc = "ctx_begin"
    /\ IF systems_enabled.search_manager /\ data.segmento
         THEN q' = 1 /\ pc' = "ctx_search"
         ELSE pc' = "ai" /\ UNCHANGED q
    /\ UNCHANGED <<env, research_data, cur, i, calls, ai_response, ai_analysis, report,
                   outcome, error, swallowed>>

\* ContextSearch with the extraction loop over the whole reply, not its top 3
ContextSearch_WholeReply ==
    /\ pc = "ctx_search"
    /\ IF q <= NumContextQueries
         THEN \/ /\ calls' = Append(calls, Call("search", ContextQuery(q), "raise"))
                 /\ swallowed' = Append(swallowed, "context_error")
                 /\ pc' = "ai"
                 /\ UNCHANGED <<research_data, cur, i>>
              \/ \E context_results \in ContextReplies(q) :
                       /\ calls' = Append(calls, Call("search", ContextQuery(q),
                                                    IF context_results = <<>> THEN "empty"
                                                                             ELSE "list"))
                       /\ research_data' = [research_data EXCEPT
                                              !.search_results = @ \o context_results]
                       /\ cur' = context_results
                       /\ i' = 1
                       /\ pc' = "extract_ctx"
                       /\ UNCHANGED swallowed
         ELSE /\ pc' = "ai"
              /\ UNCHANGED <<research_data, cur, i, calls, swallowed>>
    /\ UNCHANGED <<env, q, ai_response, ai_analysis, report, outcome, error>>

\* lines 131-134 and 148-150: the search of contextual query q
ContextSearch ==
    /\ pc = "ctx_search"
    /\ IF q <= NumContextQueries
         THEN \/ /\ calls' = Append(calls, Call("search", ContextQuery(q), "raise"))
                 /\ swallowed' = Append(swallowed, "context_error")
                 /\ pc' = "ai"
                 /\ UNCHANGED <<research_data, cur, i>>
              \/ \E context_results \in ContextReplies(q) :
                       /\ calls' = Append(calls, Call("search", ContextQuery(q),
                                                    IF context_results = <<>> THEN "empty"
                                                                             ELSE "list"))
                       /\ research_data' = [research_data EXCEPT
                                              !.search_results = @ \o context_results]
                       /\ cur' = SubSeq(context_results, 1,
                                        Min(ContextExtractCap, Len(context_results)))
                       /\ i' = 1
                       /\ pc' = "extract_ctx"
                       /\ UNCHANGED swallowed
         ELSE /\ pc' = "ai"
              /\ UNCHANGED <<research_data, cur, i, calls, swallowed>>
    /\ UNCHANGED <<env, q, ai_response, ai_analysis, report, outcome, error>>

\* lines 136-150: one round of the extraction loop of contextual query q
ExtractContext ==
    /\ pc = "extract_ctx"
    /\ IF i <= Len(cur)
         THEN IF ~HasUrl(cur[i])
           THEN /\ swallowed' = Append(swallowed, "context_error")
                /\ pc' = "ai"
                /\ UNCHANGED <<research_data, i, q, calls>>
           ELSE /\ calls' = Append(calls, Call("extract_content", cur[i].url,
                                               extract_content(cur[i].url).kind))
                /\ LET content == extract_content(cur[i].url) IN
                     CASE content.kind = "raise" ->
                            /\ swallowed' = Append(swallowed, "context_error")
                            /\ pc' = "ai"
                            /\ UNCHANGED <<research_data, i, q>>
                       [] content.kind = "empty" ->
                            /\ i' = i + 1
                            /\ UNCHANGED <<research_data, pc, q, swallowed>>
                       [] OTHER ->
                            /\ research_data' =
                                 [research_data EXCEPT
                                    !.extracted_content = Append(@, Page(cur[i], content.len, q)),
                                    !.total_content_length = @ + content.len]
                            /\ i' = i + 1
                            /\ UNCHANGED <<pc, q, swallowed>>
         ELSE /\ q' = q + 1
              /\ pc' = "ctx_search"
              /\ UNCHANGED <<research_data, i, calls, swallowed>>
    /\ UNCHANGED <<env, cur, ai_response, ai_analysis, report, outcome, error>>

\* lines 161-185: the availability test and the rendering of the context
AnalysisBegin ==
    /\ pc = "ai"
    /\ IF ~systems_enabled.ai_manager
         THEN /\ error' = "AI Manager nao disponivel"
              /\ pc' = "fallback"
              /\ UNCHANGED <<ai_analysis, swallowed>>
         ELSE IF \E k \in 1..Min(15, Len(research_data.search_results)) :
                    research_data.search_results[k].keys = "nosnippet"
           THEN /\ ai_analysis' = GenerateBasicAnalysis(data)
                /\ swallowed' = Append(swallowed, "ai_error")
                /\ pc' = "consolidate"
                /\ UNCHANGED error
           ELSE /\ pc' = "ai_call"
                /\ UNCHANGED <<ai_analysis, error, swallowed>>
    /\ UNCHANGED <<env, research_data, cur, i, q, calls, ai_response, report, outcome>>

\* ModelCall with a failed call raising to the controller instead of being
\* degraded to the basic analysis
ModelCall_Propagates ==
    /\ pc = "ai_call"
    /\ \/ \E failure \in {"raise", "empty"} :
            /\ calls' = Append(calls, Call("generate_analysis", "prompt", failure))
            /\ error' = "IA nao retornou resposta valida"
            /\ pc' = "fallback"
            /\ UNCHANGED <<ai_response, ai_analysis, swallowed>>
       \/ \E text \in ModelTexts :
            /\ calls' = Append(calls, Call("generate_analysis", "prompt", "text"))
            /\ ai_response' = text
            /\ pc' = "process"
            /\ UNCHANGED <<ai_analysis, swallowed, error>>
    /\ UNCHANGED <<env, research_data, cur, i, q, report, outcome>>

\* ModelCall with one more attempt after a first failed call
ModelCall_Retry ==
    /\ pc = "ai_call"
    /\ \/ \E failure \in {"raise", "empty"} :
            /\ calls' = Append(calls, Call("generate_analysis", "prompt", failure))
            /\ IF \E k \in DOMAIN calls : calls[k].op = "generate_analysis"
                 THEN /\ ai_analysis' = GenerateBasicAnalysis(data)
                      /\ swallowed' = Append(swallowed, "ai_error")
                      /\ pc' = "consolidate"
                 ELSE UNCHANGED <<ai_analysis, swallowed, pc>>
            /\ UNCHANGED ai_response
       \/ \E text \in ModelTexts :
            /\ calls' = Append(calls, Call("generate_analysis", "prompt", "text"))
            /\ ai_response' = text
            /\ pc' = "process"
            /\ UNCHANGED <<ai_analysis, swallowed>>
    /\ UNCHANGED <<env, research_data, cur, i, q, report, outcome, error>>

\* lines 189-204: the model call
ModelCall ==
    /\ pc = "ai_call"
    /\ \/ \E failure \in {"raise", "empty"} :
            /\ calls' = Append(calls, Call("generate_analysis", "prompt", failure))
            /\ ai_analysis' = GenerateBasicAnalysis(data)
            /\ swallowed' = Append(swallowed, "ai_error")
            /\ pc' = "consolidate"
            /\ UNCHANGED ai_response
       \/ \E text \in ModelTexts :
            /\ calls' = Append(calls, Call("generate_analysis", "prompt", "text"))
            /\ ai_response' = text
            /\ pc' = "process"
            /\ UNCHANGED <<ai_analysis, swallowed>>
    /\ UNCHANGED <<env, research_data, cur, i, q, report, outcome, error>>

\* lines 196-198 and 202-204: response recovery inside the stage's try
ProcessResponse ==
    /\ pc = "process"
    /\ LET processed == ProcessAiResponse(ai_response, data) IN
         IF processed.kind = "ok"
           THEN ai_analysis' = processed.val /\ UNCHANGED swallowed
           ELSE /\ ai_analysis' = GenerateBasicAnalysis(data)
                /\ swallowed' = Append(swallowed, "ai_error")
    /\ pc' = "consolidate"
    /\ UNCHANGED <<env, research_data, cur, i, q, calls, ai_response, report, outcome, error>>

\* ConsolidateData with the KeyError of line 507 escaping the controller
ConsolidateData_Uncaught ==
    /\ pc = "consolidate"
    /\ IF \A k \in DOMAIN research_data.search_results : HasUrl(research_data.search_results[k])
         THEN /\ report' = WithResearch(ai_analysis, research_data)
              /\ pc' = "insights_ai_status"
              /\ UNCHANGED <<error, outcome>>
         ELSE /\ error' = "KeyError: 'url'"
              /\ outcome' = "raised"
              /\ pc' = "done"
              /\ UNCHANGED report
    /\ UNCHANGED <<env, research_data, cur, i, q, calls, ai_response, ai_analysis, swallowed>>

\* ConsolidateData without the copy of line 501: the research blocks are
\* written into the analysis mapping that was passed in
ConsolidateData_InPlace ==
    /\ pc = "consolidate"
    /\ IF \A k \in DOMAIN research_data.search_results : HasUrl(research_data.search_results[k])
         THEN /\ report' = WithResearch(ai_analysis, research_data)
              /\ ai_analysis' = WithResearch(ai_analysis, research_data)
              /\ pc' = "insights_ai_status"
              /\ UNCHANGED error
         ELSE /\ error' = "KeyError: 'url'"
              /\ pc' = "fallback"
              /\ UNCHANGED <<report, ai_analysis>>
    /\ UNCHANGED <<env, research_data, cur, i, q, calls, ai_response, outcome, swallowed>>

\* lines 501-524 and 553-578: everything before the first status read
ConsolidateData ==
    /\ pc = "consolidate"
    /\ IF \A k \in DOMAIN research_data.search_results : HasUrl(research_data.search_results[k])
         THEN /\ report' = WithResearch(ai_analysis, research_data)
              /\ pc' = "insights_ai_status"
              /\ UNCHANGED error
         ELSE /\ error' = "KeyError: 'url'"
              /\ pc' = "fallback"
              /\ UNCHANGED report
    /\ UNCHANGED <<env, research_data, cur, i, q, calls, ai_response, ai_analysis, outcome,
                   swallowed>>

\* ai_manager.get_provider_status() or search_manager.get_provider_status(),
\* whichever the position `at` reads, ending as `res`
StatusCall(at, res) ==
    calls' = Append(calls, Call("get_provider_status",
                                IF pc = at THEN "ai" ELSE "search", res))

StatusRaises(next) ==
    /\ error' = "provider status error"
    /\ pc' = next

\* lines 581-592 and 528-532: the two status reads of the insight derivation
InsightStatus ==
    /\ pc \in {"insights_ai_status", "insights_search_status"}
    /\ \/ /\ StatusCall("insights_ai_status", "raise")
          /\ StatusRaises("fallback")
          /\ UNCHANGED report
       \/ /\ StatusCall("insights_ai_status", "ok")
          /\ IF pc = "insights_ai_status"
            THEN pc' = "insights_search_status" /\ UNCHANGED <<report, error>>
            ELSE LET merged == WithInsights(report,
                                  GenerateRealExclusiveInsights(research_data,
                                     ProviderStatus("ai"), ProviderStatus("search")))
                 IN IF merged.kind = "ok"
                      THEN report' = merged.val /\ pc' = "systems_ai_status" /\ UNCHANGED error
                      ELSE error' = "TypeError" /\ pc' = "fallback" /\ UNCHANGED report
    /\ UNCHANGED <<env, research_data, cur, i, q, ai_response, ai_analysis, outcome, swallowed>>

\* lines 535-543 and 57-73: the status reads of sistemas_utilizados, then
\* the metadata block and the return
SystemsStatus ==
    /\ pc \in {"systems_ai_status", "systems_search_status"}
    /\ \/ /\ StatusCall("systems_ai_status", "raise")
          /\ StatusRaises("fallback")
          /\ UNCHANGED <<report, outcome>>
       \/ /\ StatusCall("systems_ai_status", "ok")
          /\ IF pc = "systems_ai_status"
            THEN pc' = "systems_search_status" /\ UNCHANGED <<report, outcome, error>>
            ELSE LET final_analysis == Put(report, "sistemas_utilizados",
                                           SistemasUtilizados(research_data))
                 IN IF CalculateQualityScore(final_analysis).kind = "ok"
                      THEN /\ report' = Put(final_analysis, "metadata",
                                            Metadata(final_analysis, research_data,
                                                     Len(calls'), systems_enabled))
                           /\ outcome' = "returned"
                           /\ pc' = "done"
                           /\ UNCHANGED error
                      ELSE /\ error' = "TypeError"
                           /\ pc' = "fallback"
                           /\ UNCHANGED <<report, outcome>>
    /\ UNCHANGED <<env, research_data, cur, i, q, ai_response, ai_analysis, swallowed>>

\* FallbackBegin building the emergency report on top of whatever the
\* failed consolidation had already put into its mapping
FallbackBegin_KeepsPartial ==
    /\ pc = "fallback"
    /\ report' = [x \in (DOMAIN report) \cup (DOMAIN FallbackBase(data, error)) |->
                    IF x \in DOMAIN FallbackBase(data, error)
                      THEN FallbackBase(data, error)[x] ELSE report[x]]
    /\ pc' = "fallback_ai_status"
    /\ UNCHANGED <<env, research_data, cur, i, q, calls, ai_response, ai_analysis, outcome,
                   error, swallowed>>

\* lines 75-77 and 672-676: the controller's handler enters the emergency path
FallbackBegin ==
    /\ pc = "fallback"
    /\ report' = FallbackBase(data, error)
    /\ pc' = "fallback_ai_status"
    /\ UNCHANGED <<env, research_data, cur, i, q, calls, ai_response, ai_analysis, outcome,
                   error, swallowed>>

\* lines 678-691: the two status reads of the emergency metadata; nothing
\* catches an exception they raise
FallbackStatus ==
    /\ pc \in {"fallback_ai_status", "fallback_search_status"}
    /\ \/ /\ StatusCall("fallback_ai_status", "raise")
          /\ outcome' = "raised"
          /\ report' = EmptyMap
          /\ pc' = "done"
       \/ /\ StatusCall("fallback_ai_status", "ok")
          /\ IF pc = "fallback_ai_status"
            THEN pc' = "fallback_search_status" /\ UNCHANGED <<report, outcome>>
            ELSE /\ report' = Put(report, "metadata", EmergencyMetadata)
                 /\ outcome' = "returned"
                 /\ pc' = "done"
    /\ UNCHANGED <<env, research_data, cur, i, q, ai_response, ai_analysis, error, swallowed>>

Next ==
    \/ Start
    \/ MultiSearch
    \/ ExtractMulti
    \/ ContextBegin
    \/ ContextSearch
    \/ ExtractContext
    \/ AnalysisBegin
    \/ ModelCall
    \/ ProcessResponse
    \/ ConsolidateData
    \/ InsightStatus
    \/ SystemsStatus
    \/ FallbackBegin
    \/ FallbackStatus

Spec == Init /\ [][Next]_vars


(***************************************************************************)
(* _process_ai_response on its own: the raw text is prose, an opening      *)
(* fence, a document, a closing fence and more prose (each possibly        *)
(* absent), or any short sequence of chunks.                               *)
(***************************************************************************)
RecSyms == {"F", "j", "w", "p", "{", "}", "kA", "ARR"}
ShortTexts == UNION {[1..n -> RecSyms] : n \in 1..MaxTextLen}

Pres == {<<>>, <<"w">>, <<"p", "w">>, <<"p", "F", "p">>, <<"p", "F", "j", "p">>}
Opens == {<<>>, <<"F">>, <<"F", "w">>, <<"F", "j">>, <<"F", "j", "w">>}
ObjectDocs == {<<"{", "}">>, <<"{", "kA", "}">>, <<"{", "kA", "w", "kI1", "kU", "}">>,
               <<"{", "kA", "kM", "}">>, <<"{", "kF", "}">>, <<"{", "kJ", "kA", "}">>}
OtherDocs == {<<"ARR">>, <<"NUM">>, <<"STR">>, <<"NULL">>, <<"{", "kA">>, <<"p">>, <<"L", "L">>}
Closes == {<<>>, <<"F">>, <<"w", "F">>}
Posts == {<<>>, <<"w">>, <<"w", "p">>, <<"p", "F", "p">>, <<"L", "L">>}

TextOf(pt) == pt.pre \o pt.open \o pt.doc \o pt.close \o pt.post

InitRecover ==
    /\ data \in [query : {FALSE}, segmento : BOOLEAN]
    /\ systems_enabled = [ai_manager |-> TRUE, search_manager |-> TRUE]
    /\ extractor = [bad |-> {}, mode |-> "empty"]
    /\ pc = "recover"
    /\ research_data = EmptyBundle
    /\ cur = <<>>
    /\ i = 1
    /\ q = 1
    /\ calls = <<>>
    /\ ai_response = <<>>
    /\ ai_analysis = EmptyMap
    /\ report = EmptyMap
    /\ outcome = "running"
    /\ error = ""
    /\ swallowed = <<>>
    /\ \/ parts \in [pre : Pres, open : Opens, doc : ObjectDocs \cup OtherDocs,
                     close : Closes, post : Posts]
       \/ parts \in [pre : {<<>>}, open : {<<>>}, doc : ShortTexts,
                     close : {<<>>}, post : {<<>>}]
    /\ txt = TextOf(parts)
    /\ args = NoArg
    /\ out = NoResult

\* one call _process_ai_response(txt, data)
Recover ==
    /\ pc = "recover"
    /\ out' = ProcessAiResponse(txt, data)
    /\ pc' = "recovered"
    /\ UNCHANGED <<data, systems_enabled, extractor, research_data, cur, i, q, calls,
                   ai_response, ai_analysis, report, outcome, error, swallowed, parts, txt,
                   args>>

NextRecover == Recover

SpecRecover == InitRecover /\ [][NextRecover]_vars


(***************************************************************************)
(* The other helpers on their own: _generate_real_exclusive_insights,      *)
(* _calculate_quality_score and _consolidate_comprehensive_analysis called *)
(* once on arguments drawn from the sets below.                            *)
(***************************************************************************)
SixDomains == [k \in 1..6 |-> R(UrlSeq[k], IF k <= 2 THEN "p1" ELSE "p2")]
FiveDomains == [SixDomains EXCEPT ![6] = R("u7", "p3")]

ResultLists == { <<>>,
                 <<R("u1", "p1"), R("u2", "p2")>>,
                 <<R("u1", "p1"), NoUrl("p1"), R("u0", "p2")>>,
                 SixDomains,
                 FiveDomains,
                 SixDomains \o <<NoUrl("p1"), R("u0", "p2"), R("u7", "p1")>>,
                 FiveDomains \o <<NoUrl("p1"), R("u0", "p2")>>,
                 LongList }
PageLists == { <<>>,
               <<Page(R("u1", "p1"), 1, 0)>>,
               <<Page(R("u1", "p1"), 1, 0), Page(R("u2", "p2"), 2, 1)>> }

RECURSIVE ContentTotal(_)
ContentTotal(pages) ==
    IF pages = <<>> THEN 0 ELSE Head(pages).content_len + ContentTotal(Tail(pages))

BundleOf(results, pages) ==
    [search_results |-> results, extracted_content |-> pages,
     sources |-> [k \in DOMAIN results |-> Descriptor(results[k])],
     total_content_length |-> ContentTotal(pages)]
Bundles == {BundleOf(results, pages) : results \in ResultLists, pages \in PageLists}

Statuses == {<<>>, <<FALSE>>, <<TRUE, FALSE>>, <<TRUE, TRUE, TRUE>>}

\* values a key of an analysis mapping may hold; "absent" stands for a key
\* the mapping does not have
Absent == JV("absent", <<>>)
SectionValues == {Absent, JV("dict", <<>>), JV("dict", <<Item("x")>>)}
InsightValues == {Absent, JV("list", <<>>), JV("list", AiList(1)), JV("list", AiList(3)),
                  JV("list", AiList(5)), JV("list", AiList(6)),
                  JV("str", [k \in 1..5 |-> Item("char")]), JV("dict", <<Item("x")>>),
                  JV("num", <<Item("7")>>), JV("num", <<>>), JV("null", <<>>)}

AnalysisOf(f) == [k \in {x \in DOMAIN f : f[x] # Absent} |-> f[k]]

ScoredAnalyses ==
    {AnalysisOf(f) : f \in [avatar_ultra_detalhado : SectionValues,
                            escopo : SectionValues,
                            estrategia_palavras_chave : {Absent, JV("str", <<Item("char")>>)},
                            insights_exclusivos : InsightValues,
                            pesquisa_web_detalhada : {Absent, JV("dict", <<>>)},
                            pesquisa_profunda : {Absent, JV("null", <<>>)}]}

ModelAnalyses ==
    {AnalysisOf(f) : f \in [avatar_ultra_detalhado : {Absent, JV("dict", <<Item("x")>>)},
                            insights_exclusivos :
                               {Absent, JV("list", <<>>), JV("list", AiList(5)),
                                JV("str", <<Item("char")>>)},
                            insights_exclusivos_ultra :
                               {Absent, JV("list", AiList(2)), JV("null", <<>>)},
                            dados_pesquisa_real : {Absent, JV("dict", <<Item("ai_dados")>>)},
                            conteudo_extraido_real : {Absent, JV("dict", <<>>)},
                            sistemas_utilizados : {Absent, JV("dict", <<Item("ai_sistemas")>>)}]}

InsightArgs == [fn : {"insights"}, rd : Bundles, analysis : {EmptyMap},
                ai_status : Statuses, search_status : Statuses]
ScoreArgs == [fn : {"score"}, rd : {EmptyBundle}, analysis : ScoredAnalyses,
              ai_status : {<<>>}, search_status : {<<>>}]
ConsolidateArgs == [fn : {"consolidate"}, rd : Bundles, analysis : ModelAnalyses,
                    ai_status : {ProviderStatus("ai")},
                    search_status : {ProviderStatus("search")}]

InitHelpers ==
    /\ data \in [query : {FALSE}, segmento : {TRUE}]
    /\ systems_enabled = [ai_manager |-> TRUE, search_manager |-> TRUE]
    /\ extractor = [bad |-> {}, mode |-> "empty"]
    /\ pc = "call"
    /\ research_data = EmptyBundle
    /\ cur = <<>>
    /\ i = 1
    /\ q = 1
    /\ calls = <<>>
    /\ ai_response = <<>>
    /\ ai_analysis = EmptyMap
    /\ report = EmptyMap
    /\ outcome = "running"
    /\ error = ""
    /\ swallowed = <<>>
    /\ parts = NoParts
    /\ txt = <<>>
    /\ args \in InsightArgs \cup ScoreArgs \cup ConsolidateArgs
    /\ out = NoResult

frame == <<data, systems_enabled, extractor, research_data, cur, i, q, calls, ai_response,
           ai_analysis, report, outcome, error, swallowed, parts, txt, args>>

\* one call _generate_real_exclusive_insights(data, rd, ai_analysis)
CallInsights ==
    /\ pc = "call" /\ args.fn = "insights"
    /\ out' = [kind |-> "ok",
               val |-> GenerateRealExclusiveInsights(args.rd, args.ai_status,
                                                     args.search_status)]
    /\ pc' = "called"
    /\ UNCHANGED frame

\* one call _calculate_quality_score(analysis)
CallScore ==
    /\ pc = "call" /\ args.fn = "score"
    /\ out' = CalculateQualityScore(args.analysis)
    /\ pc' = "called"
    /\ UNCHANGED frame

\* one call _consolidate_comprehensive_analysis(data, rd, analysis)
CallConsolidate ==
    /\ pc = "call" /\ args.fn = "consolidate"
    /\ out' = ConsolidateComprehensiveAnalysis(args.rd, args.analysis, args.ai_status,
                                               args.search_status)
    /\ pc' = "called"
    /\ UNCHANGED frame

NextHelpers == CallInsights \/ CallScore \/ CallConsolidate

SpecHelpers == InitHelpers /\ [][NextHelpers]_vars


(***************************************************************************)
(* Vocabulary of the properties                                            *)
(***************************************************************************)
AiUnavailableMsg == "AI Manager nao disponivel"

CallsOf(op) == {k \in DOMAIN calls : calls[k].op = op}
StatusFailed == \E k \in CallsOf("get_provider_status") : calls[k].res = "raise"
ModelFailed == \E k \in CallsOf("generate_analysis") : calls[k].res \in {"raise", "empty"}
ModelRaised == \E k \in CallsOf("generate_analysis") : calls[k].res = "raise"
AllResultsHaveUrl == \A k \in DOMAIN research_data.search_results :
                        research_data.search_results[k].keys # "nourl"

BeforeAnalysisReturns == {"start", "multi_search", "extract_multi", "ctx_begin",
                          "ctx_search", "extract_ctx", "ai", "ai_call", "process"}

\* the basic analysis as section 4.6 describes it, written out
BasicReference(d) ==
    [avatar_ultra_detalhado |-> [t |-> "dict", v |-> <<[k |-> "basic_avatar", a |-> 0, b |-> 0, m |-> ""]>>],
     escopo |-> [t |-> "dict", v |-> <<[k |-> "basic_escopo", a |-> 0, b |-> 0, m |-> ""]>>],
     estrategia_palavras_chave |->
        [t |-> "dict", v |-> <<[k |-> "basic_keywords", a |-> 0, b |-> 0,
                                m |-> IF d.segmento THEN "segmento" ELSE "default"]>>],
     insights_exclusivos |->
        [t |-> "list",
         v |-> <<[k |-> "basic_oportunidades", a |-> 0, b |-> 0,
                  m |-> IF d.segmento THEN "segmento" ELSE "default"],
                 [k |-> "basic_digitalizacao", a |-> 0, b |-> 0, m |-> ""],
                 [k |-> "basic_marketing", a |-> 0, b |-> 0, m |-> ""],
                 [k |-> "basic_personalizacao", a |-> 0, b |-> 0, m |-> ""],
                 [k |-> "basic_mode_warning", a |-> 0, b |-> 0, m |-> ""]>>]]

(***************************************************************************)
(* C1: whatever the search, extraction and model calls do, as long as the  *)
(* provider-status reads succeed, the run ends by returning a mapping      *)
(* whose metadata carries a quality_score between 0 and 100.               *)
(***************************************************************************)
C1_AlwaysReturnsScoredReport ==
    /\ ~StatusFailed => outcome # "raised"
    /\ (pc = "done" /\ ~StatusFailed) =>
          /\ outcome = "returned"
          /\ "metadata" \in DOMAIN report
          /\ report["metadata"].quality_score \in 0..100

\* a model object whose insight list is no list made consolidation fail,
\* and the run still returned a scored report
C1_Witness ==
    /\ pc = "done" /\ ~StatusFailed /\ outcome = "returned"
    /\ error = "TypeError"
    /\ \E k \in CallsOf("extract_content") : calls[k].res = "raise"

(***************************************************************************)
(* C2: the emergency path never raises: a failing provider-status read is  *)
(* left out and the run still returns a report.                            *)
(***************************************************************************)
C2_EmergencyPathNeverRaises ==
    /\ outcome # "raised"
    /\ pc = "done" => outcome = "returned" /\ "metadata" \in DOMAIN report

(***************************************************************************)
(* C3: without a model collaborator the model is never invoked, the        *)
(* controller catches the unavailability error and the run returns the     *)
(* emergency analysis: the basic analysis, then the insight carrying the   *)
(* message, then the retry recommendation, with processing time 0 and      *)
(* quality_score 25.                                                       *)
(***************************************************************************)
C3_UnconfiguredModelGivesEmergencyReport ==
    (pc = "done" /\ ~systems_enabled.ai_manager) =>
        /\ CallsOf("generate_analysis") = {}
        /\ error = AiUnavailableMsg
        /\ outcome = "returned"
        /\ DOMAIN report = DOMAIN BasicReference(data) \cup {"metadata"}
        /\ \A sec \in {"avatar_ultra_detalhado", "escopo", "estrategia_palavras_chave"} :
              report[sec] = BasicReference(data)[sec]
        /\ report["insights_exclusivos"].v =
              BasicReference(data)["insights_exclusivos"].v
                 \o <<[k |-> "erro_processamento", a |-> 0, b |-> 0, m |-> AiUnavailableMsg],
                      [k |-> "recomenda_nova_analise", a |-> 0, b |-> 0, m |-> ""]>>
        /\ report["metadata"].processing_time_seconds = 0
        /\ report["metadata"].quality_score = 25

(***************************************************************************)
(* C4: the analysis stage raises only when no model collaborator is        *)
(* configured; with one configured it returns a mapping whatever the call  *)
(* does, and the basic analysis when the call raised or came back empty.   *)
(***************************************************************************)
C4_AnalysisRaisesOnlyWhenUnconfigured ==
    /\ (error # "" /\ ai_analysis = EmptyMap) => ~systems_enabled.ai_manager
    /\ (systems_enabled.ai_manager /\ pc \notin BeforeAnalysisReturns) =>
           ai_analysis # EmptyMap
    /\ ModelFailed => ai_analysis = BasicReference(data)

\* the model answered with a JSON array and the stage returned all the same
C4_Witness ==
    /\ pc = "consolidate"
    /\ ai_response = <<"ARR">>
    /\ ai_analysis = BasicReference(data)

(***************************************************************************)
(* C5: a configured model collaborator that raises yields, through the     *)
(* normal path, a report with the avatar, escopo and keyword sections of   *)
(* the basic analysis, the five basic insights and the scorer's value for  *)
(* these sections as metadata.quality_score.                               *)
(***************************************************************************)
C5_BasicShapeReport ==
    /\ outcome = "returned"
    /\ error = ""
    /\ \A sec \in {"avatar_ultra_detalhado", "escopo", "estrategia_palavras_chave"} :
          sec \in DOMAIN report /\ report[sec] = BasicReference(data)[sec]
    /\ Len(report["insights_exclusivos"].v) >= 5
    /\ SubSeq(report["insights_exclusivos"].v, 1, 5) = BasicReference(data)["insights_exclusivos"].v
    /\ report["metadata"].quality_score = 15 * 4 + 20

C6_Parsed == /\ "metadata_ai" \in DOMAIN out.val
             /\ out.val["metadata_ai"].t = "dict"
             /\ "raw_ai_response" \notin DOMAIN out.val

C6_HeuristicRecovered ==
    /\ "raw_ai_response" \in DOMAIN out.val
    /\ "metadata_ai" \notin DOMAIN out.val
    /\ EntriesLen(out.val["raw_ai_response"].v) = Min(CharLen(txt), 1000)
    /\ \A k \in DOMAIN out.val["raw_ai_response"].v :
          out.val["raw_ai_response"].v[k].m = txt[k]

C6_RecoverNeverRaises ==
    pc = "recovered" =>
       /\ out.kind = "ok"
       /\ C6_Parsed \/ C6_HeuristicRecovered
       /\ ~(C6_Parsed /\ C6_HeuristicRecovered)

(***************************************************************************)
(* C7: a JSON object J inside a fenced block, JSON-tagged or generic, with *)
(* whitespace or prose around the fences, comes back as a mapping whose    *)
(* keys other than metadata_ai are the keys of J with the values of J.     *)
(***************************************************************************)
C7_FencedObject == /\ parts.open # <<>>
                   /\ parts.close # <<>>
                   /\ parts.doc \in ObjectDocs
C7_Tagged == Len(parts.open) >= 2 /\ parts.open[2] = "j"
C7_J == ObjOf(SubSeq(parts.doc, 2, Len(parts.doc) - 1))

\* the claim as stated
C7_FencedObjectRoundTrips ==
    (pc = "recovered" /\ C7_FencedObject) =>
       /\ out.kind = "ok"
       /\ (DOMAIN out.val) \ {"metadata_ai"} = DOMAIN C7_J
       /\ \A k \in (DOMAIN C7_J) \ {"metadata_ai"} : out.val[k] = C7_J[k]

\* the block's opening fence is the marker the function starts from, and
\* its closing fence is the last marker of the text
C7_FencesAreTheBlocks ==
    /\ ~HasFence(parts.post)
    /\ IF C7_Tagged THEN ~HasJsonFence(parts.pre)
                    ELSE ~HasFence(parts.pre) /\ ~HasJsonFence(parts.doc)

\* the claim for such texts, a metadata_ai member of J being overwritten
C7_FencedObjectRoundTrips_Amended ==
    (pc = "recovered" /\ C7_FencedObject /\ C7_FencesAreTheBlocks) =>
       /\ out.kind = "ok"
       /\ "raw_ai_response" \notin DOMAIN out.val
       /\ (DOMAIN out.val) \ {"metadata_ai"} = (DOMAIN C7_J) \ {"metadata_ai"}
       /\ \A k \in (DOMAIN C7_J) \ {"metadata_ai"} : out.val[k] = C7_J[k]
       /\ out.val["metadata_ai"].t = "dict"

\* prose holding a generic marker, a JSON-tagged block around an object
\* whose string holds the tagged marker, prose after it
C7_Witness ==
    /\ pc = "recovered" /\ C7_FencedObject /\ C7_FencesAreTheBlocks
    /\ parts.pre = <<"p", "F", "p">>
    /\ C7_Tagged
    /\ parts.doc = <<"{", "kJ", "kA", "}">>
    /\ parts.post = <<"w", "p">>
    /\ DOMAIN out.val = {"nota_json", "avatar_ultra_detalhado", "metadata_ai"}

(***************************************************************************)
(* C8: the collector never raises and a failing search call costs only the *)
(* results of its own query: every contextual query is still searched.     *)
(***************************************************************************)
CollectorPositions == {"start", "multi_search", "extract_multi", "ctx_begin", "ctx_search",
                       "extract_ctx"}
ExtractionRaised == \E k \in CallsOf("extract_content") : calls[k].res = "raise"

C8_SearchFailureIsolated ==
    (pc \notin CollectorPositions /\ systems_enabled.search_manager /\ data.segmento
       /\ ~ExtractionRaised) =>
       \A n \in 1..3 : \E k \in CallsOf("search") : calls[k].arg = ContextQuery(n)

(***************************************************************************)
(* C9: a failing extraction drops only its URL: after the multi-provider   *)
(* search every result within the cap has been attempted and the sources   *)
(* of the search are recorded.                                             *)
(***************************************************************************)
C9_ExtractionFailureIsolated ==
    (pc = "ctx_begin" /\ AllResultsHaveUrl) =>
       /\ Cardinality(CallsOf("extract_content")) = Min(15, Len(research_data.search_results))
       /\ Len(research_data.sources) = Len(research_data.search_results)

(***************************************************************************)
(* C10: once the collector has returned, sources holds the descriptor      *)
(* {url, title, source} of every search result of the bundle, in order.    *)
(***************************************************************************)
C10_SourcesMirrorSearchResults ==
    (pc \notin CollectorPositions /\ AllResultsHaveUrl /\ ~ExtractionRaised) =>
       research_data.sources =
          [k \in DOMAIN research_data.search_results |->
             [url |-> research_data.search_results[k].url,
              title |-> research_data.search_results[k].title,
              source |-> research_data.search_results[k].source]]

(***************************************************************************)
(* C11: when every search call returns zero results the bundle stays       *)
(* empty (no results, pages or sources, total_content_length 0), no        *)
(* extraction call is made, and the run still returns a report through the *)
(* normal path: sistemas_utilizados and a computed metadata block, none of *)
(* the research-data keys.                                                 *)
(***************************************************************************)
SearchCalls == CallsOf("multi_search") \cup CallsOf("search")
AllSearchesEmpty == \A k \in SearchCalls : calls[k].res = "empty"
ResearchKeys == {"dados_pesquisa_real", "conteudo_extraido_real"}

C11_EmptyBundle ==
    /\ research_data.search_results = <<>>
    /\ research_data.extracted_content = <<>>
    /\ research_data.sources = <<>>
    /\ research_data.total_content_length = 0
    /\ CallsOf("extract_content") = {}

C11_NormalReport ==
    /\ outcome = "returned"
    /\ error = ""
    /\ "sistemas_utilizados" \in DOMAIN report
    /\ "metadata" \in DOMAIN report
    /\ report["metadata"].analysis_engine # "Emergency Fallback"
    /\ report["metadata"].data_sources_used = 0
    /\ ResearchKeys \cap DOMAIN report = {}

C11_InsightSection ==
    IF "insights_exclusivos" \in DOMAIN ai_analysis /\ ai_analysis["insights_exclusivos"].v # <<>>
      THEN ai_analysis["insights_exclusivos"]
    ELSE IF "insights_exclusivos_ultra" \in DOMAIN ai_analysis
      THEN ai_analysis["insights_exclusivos_ultra"]
    ELSE [t |-> "list", v |-> <<>>]

C12_HostOf(r) ==
    IF r.keys = "nourl" THEN ""
    ELSE CASE r.url \in {"u1", "u7"} -> "d1" [] r.url = "u2" -> "d2" [] r.url = "u3" -> "d3"
           [] r.url = "u4" -> "d4" [] r.url = "u5" -> "d5" [] r.url = "u6" -> "d6"
           [] OTHER -> ""
C12_Hosts(results) == {C12_HostOf(results[k]) : k \in DOMAIN results} \ {""}
C12_Providers(results) == {results[k].source : k \in DOMAIN results}
C12_Up(status) == Cardinality({k \in DOMAIN status : status[k]})

C12_Expected ==
    LET results == args.rd.search_results
        pages == args.rd.extracted_content
    IN (IF Len(results) > 0
          THEN <<[k |-> "pesquisa_real", a |-> Len(results),
                  b |-> Cardinality(C12_Providers(results)), m |-> ""]>>
          ELSE <<>>)
       \o (IF Len(pages) > 0
             THEN <<[k |-> "conteudo_real", a |-> Len(pages),
                     b |-> args.rd.total_content_length, m |-> ""]>>
             ELSE <<>>)
       \o (IF Cardinality(C12_Hosts(results)) > 5
             THEN <<[k |-> "diversidade_fontes", a |-> Cardinality(C12_Hosts(results)),
                     b |-> 0, m |-> ""]>>
             ELSE <<>>)
       \o <<[k |-> "sistema_robusto", a |-> C12_Up(args.ai_status),
             b |-> C12_Up(args.search_status), m |-> ""],
            [k |-> "garantia_qualidade", a |-> 0, b |-> 0, m |-> ""]>>

C12_InsightListIsFixedOrder ==
    (pc = "called" /\ args.fn = "insights") =>
       /\ out.kind = "ok"
       /\ Len(out.val) \in 2..5
       /\ out.val = C12_Expected

\* six hosts among results that also hold a result without url and a URL
\* that does not split: all five insights
C12_Witness ==
    /\ pc = "called" /\ args.fn = "insights"
    /\ Len(args.rd.search_results) = 9
    /\ \E k \in DOMAIN args.rd.search_results : args.rd.search_results[k].keys = "nourl"
    /\ Len(args.rd.extracted_content) = 2
    /\ Len(out.val) = 5
    /\ out.val[3].k = "diversidade_fontes" /\ out.val[3].a = 6

(***************************************************************************)
(* C13: in every report the run returns, on the normal path and on the     *)
(* emergency path, metadata.quality_score is the value                     *)
(* _calculate_quality_score computes from that same report.                *)
(***************************************************************************)
C13_ScoreOfReport == CalculateQualityScore(report)

\* the claim as stated
C13_ScoreAlwaysRecomputed ==
    (pc = "done" /\ outcome = "returned") =>
       /\ C13_ScoreOfReport.kind = "ok"
       /\ report["metadata"].quality_score = C13_ScoreOfReport.val

\* the normal path as stated; the emergency path carries the constant 25
\* while the scorer gives 80 for the emergency report
C13_ScoreAlwaysRecomputed_Amended ==
    /\ (pc = "done" /\ outcome = "returned" /\ error = "") =>
          /\ C13_ScoreOfReport.kind = "ok"
          /\ report["metadata"].quality_score = C13_ScoreOfReport.val
    /\ (pc = "done" /\ outcome = "returned" /\ error # "") =>
          /\ report["metadata"].quality_score = 25
          /\ C13_ScoreOfReport.val = 80

\* a normal report with all four sections, both research keys and at least
\* five insights
C13_Witness ==
    /\ pc = "done" /\ outcome = "returned" /\ error = ""
    /\ {"pesquisa_web_detalhada", "pesquisa_profunda"} \subseteq DOMAIN report
    /\ report["metadata"].quality_score = 100

(***************************************************************************)
(* C14: _calculate_quality_score never fails and returns a value in        *)
(* 0..100: 15 for each of the four named sections present and non-empty,   *)
(* 10 for each of the two research keys present, and 20, 15, 10 or 0 for   *)
(* an insight list of at least 5, 3, 1 or no entries; a missing key or a   *)
(* value of an unexpected shape scores zero for its component.             *)
(***************************************************************************)
C14_Sections == {"avatar_ultra_detalhado", "escopo", "estrategia_palavras_chave",
                 "insights_exclusivos"}
C14_ResearchKeys == {"pesquisa_web_detalhada", "pesquisa_profunda"}

C14_InsightComponent(analysis) ==
    IF "insights_exclusivos" \in DOMAIN analysis /\ analysis["insights_exclusivos"].t = "list"
      THEN LET n == Len(analysis["insights_exclusivos"].v)
           IN IF n >= 5 THEN 20 ELSE IF n >= 3 THEN 15 ELSE IF n >= 1 THEN 10 ELSE 0
      ELSE 0

C14_Reference(analysis) ==
    15 * Cardinality({sec \in C14_Sections \cap DOMAIN analysis : analysis[sec].v # <<>>})
    + 10 * Cardinality(C14_ResearchKeys \cap DOMAIN analysis)
    + C14_InsightComponent(analysis)

C14_ScorerNeverFails ==
    (pc = "called" /\ args.fn = "score") =>
       /\ out.kind = "ok"
       /\ out.val \in 0..100
       /\ ("insights_exclusivos" \in DOMAIN args.analysis =>
             args.analysis["insights_exclusivos"].t \in {"list", "num", "null"})
          => out.val = C14_Reference(args.analysis)

(***************************************************************************)
(* C15: _calculate_quality_score is deterministic and monotonic: for an    *)
(* analysis A and a scored top-level key k that A does not have, the score *)
(* of A extended with k, whatever the value, is at least the score of A.   *)
(***************************************************************************)
C15_ScoredKeys == {"avatar_ultra_detalhado", "escopo", "estrategia_palavras_chave",
                   "insights_exclusivos", "pesquisa_web_detalhada", "pesquisa_profunda"}
C15_Values == (SectionValues \cup InsightValues) \ {Absent}
C15_Extended(k, val) ==
    CalculateQualityScore([x \in (DOMAIN args.analysis) \cup {k} |->
                             IF x = k THEN val ELSE args.analysis[x]])

C15_AddingAKeyNeverLowersScore ==
    (pc = "called" /\ args.fn = "score" /\ out.kind = "ok") =>
       /\ out = CalculateQualityScore(args.analysis)
       /\ \A k \in C15_ScoredKeys \ DOMAIN args.analysis : \A val \in C15_Values :
             /\ C15_Extended(k, val).kind = "ok"
             /\ C15_Extended(k, val).val >= out.val

(***************************************************************************)
(* C16: within one run the stages are strictly sequential: every search    *)
(* and extraction call precedes the model call, the model is called at     *)
(* most once, response recovery starts only after the model call returned  *)
(* a text, consolidation and its status reads start only after the         *)
(* analysis stage returned, and the extraction calls that follow a search  *)
(* are issued one at a time in the ranked order of its results.            *)
(***************************************************************************)
C16_ResearchCalls == CallsOf("multi_search") \cup CallsOf("search")
                        \cup CallsOf("extract_content")
C16_ConsolidationPositions == {"consolidate", "insights_ai_status", "insights_search_status",
                               "systems_ai_status", "systems_search_status"}
C16_LastSearch ==
    IF SearchCalls = {} THEN 0
    ELSE CHOOSE s \in SearchCalls : \A k \in SearchCalls : k <= s

C16_StagesAreSequential ==
    /\ \A k \in C16_ResearchCalls :
          \A m \in CallsOf("generate_analysis") \cup CallsOf("get_provider_status") : k < m
    /\ \A m \in CallsOf("generate_analysis") : \A s \in CallsOf("get_provider_status") : m < s
    /\ Cardinality(CallsOf("generate_analysis")) <= 1
    /\ pc \in CollectorPositions => CallsOf("generate_analysis") = {}
    /\ pc = "process" =>
          /\ calls # <<>>
          /\ calls[Len(calls)].op = "generate_analysis"
          /\ calls[Len(calls)].res = "text"
    /\ pc \in C16_ConsolidationPositions =>
          /\ ai_analysis # EmptyMap
          /\ pc # "consolidate" => report # EmptyMap
    /\ CallsOf("get_provider_status") # {} =>
          (ai_analysis # EmptyMap \/ error = AiUnavailableMsg)
    /\ CallsOf("extract_content") # {} => SearchCalls # {}
    /\ \A k \in CallsOf("extract_content") :
          k > C16_LastSearch =>
             /\ \A l \in (C16_LastSearch + 1)..k : calls[l].op = "extract_content"
             /\ k - C16_LastSearch <= Len(cur)
             /\ calls[k].arg = cur[k - C16_LastSearch].url

\* a run with the free-text search, contextual searches, extractions, one
\* model call and the status reads of consolidation, returned normally
C16_Witness ==
    /\ pc = "done" /\ outcome = "returned" /\ error = ""
    /\ Cardinality(CallsOf("multi_search")) = 1
    /\ Cardinality(CallsOf("search")) = 3
    /\ Cardinality(CallsOf("extract_content")) >= 5
    /\ \E k \in CallsOf("generate_analysis") : calls[k].res = "text"
    /\ Cardinality(CallsOf("get_provider_status")) = 4

(***************************************************************************)
(* C17: a failing stage never partially commits: when a stage raised to    *)
(* the controller, also after research and the model call succeeded, the   *)
(* report returned is the emergency analysis, a function of the request,   *)
(* the error message and the provider status only, without                 *)
(* dados_pesquisa_real, conteudo_extraido_real, sistemas_utilizados or     *)
(* model content, equal to the one an empty bundle would give.             *)
(***************************************************************************)
C17_EmergencyInsights ==
    BasicReference(data)["insights_exclusivos"].v
       \o <<[k |-> "erro_processamento", a |-> 0, b |-> 0, m |-> error],
            [k |-> "recomenda_nova_analise", a |-> 0, b |-> 0, m |-> ""]>>

C17_FailureNeverPartiallyCommits ==
    (pc = "done" /\ outcome = "returned" /\ error # "") =>
       /\ DOMAIN report = {"avatar_ultra_detalhado", "escopo", "estrategia_palavras_chave",
                           "insights_exclusivos", "metadata"}
       /\ \A sec \in {"avatar_ultra_detalhado", "escopo", "estrategia_palavras_chave"} :
             report[sec] = BasicReference(data)[sec]
       /\ report["insights_exclusivos"] = [t |-> "list", v |-> C17_EmergencyInsights]
       /\ report["metadata"].analysis_engine = "Emergency Fallback"
       /\ report["metadata"].processing_time_seconds = 0
       /\ report["metadata"].ai_providers = ProviderStatus("ai")
       /\ report["metadata"].search_providers = ProviderStatus("search")
       /\ report = GenerateFallbackAnalysis(data, error)

\* research and the model call succeeded, the research blocks and the
\* insights were merged, and the last status read of consolidation raised
C17_Witness ==
    /\ pc = "done" /\ outcome = "returned" /\ error = "provider status error"
    /\ research_data.search_results # <<>>
    /\ research_data.extracted_content # <<>>
    /\ \E k \in CallsOf("generate_analysis") : calls[k].res = "text"
    /\ ai_analysis # BasicReference(data)
    /\ Cardinality(CallsOf("get_provider_status")) = 6

(***************************************************************************)
(* C18: in a report returned through the normal path,                      *)
(* sistemas_utilizados.total_sources and metadata.data_sources_used are    *)
(* equal and are the number of distinct URLs among the search results      *)
(* gathered for the request.                                               *)
(***************************************************************************)
C18_DistinctUrls ==
    {research_data.search_results[k].url : k \in DOMAIN research_data.search_results}

\* stated for the runs with the free-text search only, where sources holds
\* a descriptor for every search result
C18_SourceCountsAreDistinctUrls ==
    (pc = "done" /\ outcome = "returned" /\ error = "" /\ CallsOf("search") = {}
       /\ ~ExtractionRaised) =>
       /\ report["sistemas_utilizados"].total_sources = report["metadata"].data_sources_used
       /\ report["metadata"].data_sources_used = Cardinality(C18_DistinctUrls)

(***************************************************************************)
(* C19: the extraction work of a run is bounded: at most 15 extraction     *)
(* calls follow the free-text search, at most 3 follow each of the at most *)
(* three contextual searches, at most 24 in total; every extraction call   *)
(* is for the URL of a search result already in the bundle, and there are  *)
(* never more extraction calls than search results gathered.               *)
(***************************************************************************)
\* the extraction calls issued after search call s and before the next search
C19_ExtractionsAfter(s) ==
    {k \in CallsOf("extract_content") :
       k > s /\ \A t \in SearchCalls : t > s => k < t}

C19_ExtractionIsBounded ==
    /\ \A s \in CallsOf("multi_search") : Cardinality(C19_ExtractionsAfter(s)) <= 15
    /\ \A s \in CallsOf("search") : Cardinality(C19_ExtractionsAfter(s)) <= 3
    /\ Cardinality(CallsOf("multi_search")) <= 1
    /\ Cardinality(CallsOf("search")) <= 3
    /\ \A k \in CallsOf("extract_content") : \E s \in SearchCalls : s < k
    /\ Cardinality(CallsOf("extract_content")) <= 24
    /\ \A k \in CallsOf("extract_content") :
          \E r \in DOMAIN research_data.search_results :
             /\ research_data.search_results[r].keys # "nourl"
             /\ research_data.search_results[r].url = calls[k].arg
    /\ Cardinality(CallsOf("extract_content")) <= Len(research_data.search_results)

\* sixteen results of the free-text search and four of each contextual
\* search: 15 + 3 + 3 + 3 extraction calls
C19_Witness ==
    /\ pc = "done"
    /\ Len(research_data.search_results) = 28
    /\ Cardinality(CallsOf("extract_content")) = 24

(***************************************************************************)
(* C20: in the result of _consolidate_comprehensive_analysis, whatever the *)
(* analysis given, dados_pesquisa_real is present only if the bundle has a *)
(* search result and conteudo_extraido_real only if it has an extracted    *)
(* page; when present their counts are the sizes of the bundle's lists.    *)
(***************************************************************************)
C20_ResearchBlocksFollowBundle ==
    (pc = "called" /\ args.fn = "consolidate" /\ out.kind = "ok") =>
       /\ "dados_pesquisa_real" \in DOMAIN out.val => Len(args.rd.search_results) > 0
       /\ "conteudo_extraido_real" \in DOMAIN out.val => Len(args.rd.extracted_content) > 0
       /\ Len(args.rd.search_results) > 0 =>
             /\ "dados_pesquisa_real" \in DOMAIN out.val
             /\ out.val["dados_pesquisa_real"].total_resultados = Len(args.rd.search_results)
       /\ Len(args.rd.extracted_content) > 0 =>
             /\ "conteudo_extraido_real" \in DOMAIN out.val
             /\ out.val["conteudo_extraido_real"].total_paginas
                   = Len(args.rd.extracted_content)

(***************************************************************************)
(* C21: after _consolidate_comprehensive_analysis the report's             *)
(* insights_exclusivos is the pre-existing insight list followed by the    *)
(* derived insights in order; the pre-existing list is the analysis's      *)
(* insights_exclusivos when present and non-empty, otherwise its           *)
(* insights_exclusivos_ultra, otherwise empty; nothing is dropped or       *)
(* reordered.                                                              *)
(***************************************************************************)
C21_PreExisting ==
    IF "insights_exclusivos" \in DOMAIN args.analysis
          /\ args.analysis["insights_exclusivos"].v # <<>>
      THEN args.analysis["insights_exclusivos"].v
    ELSE IF "insights_exclusivos_ultra" \in DOMAIN args.analysis
      THEN args.analysis["insights_exclusivos_ultra"].v
    ELSE <<>>

C21_Derived ==
    GenerateRealExclusiveInsights(args.rd, args.ai_status, args.search_status)

C21_InsightsAreAppended ==
    (pc = "called" /\ args.fn = "consolidate" /\ out.kind = "ok") =>
       /\ "insights_exclusivos" \in DOMAIN out.val
       /\ out.val["insights_exclusivos"].t = "list"
       /\ out.val["insights_exclusivos"].v = C21_PreExisting \o C21_Derived
       /\ "insights_exclusivos_ultra" \in DOMAIN args.analysis =>
             /\ "insights_exclusivos_ultra" \in DOMAIN out.val
             /\ out.val["insights_exclusivos_ultra"] = args.analysis["insights_exclusivos_ultra"]

\* an empty insights_exclusivos next to a two-entry insights_exclusivos_ultra:
\* the two entries come first, then the five derived insights
C21_Witness ==
    /\ pc = "called" /\ args.fn = "consolidate" /\ out.kind = "ok"
    /\ "insights_exclusivos" \in DOMAIN args.analysis
    /\ args.analysis["insights_exclusivos"].v = <<>>
    /\ "insights_exclusivos_ultra" \in DOMAIN args.analysis
    /\ Len(args.analysis["insights_exclusivos_ultra"].v) = 2
    /\ Len(out.val["insights_exclusivos"].v) = 7
    /\ out.val["insights_exclusivos"].v[1].k = "ai_insight"
    /\ out.val["insights_exclusivos"].v[7].k = "garantia_qualidade"

(***************************************************************************)
(* C22: _consolidate_comprehensive_analysis leaves its inputs unchanged:   *)
(* every step of the consolidation keeps the analysis mapping passed in    *)
(* and the research bundle exactly as they were; the additions go to the   *)
(* returned copy only.                                                     *)
(***************************************************************************)
C22_ConsolidationLeavesInputsUnchanged ==
    [][(pc \in C16_ConsolidationPositions) =>
          (ai_analysis' = ai_analysis /\ research_data' = research_data)]_vars

\* consolidation has returned a report that holds a research block and a
\* longer insight list than the analysis it was given
C22_Witness ==
    /\ pc = "done" /\ outcome = "returned" /\ error = ""
    /\ "dados_pesquisa_real" \in DOMAIN report
    /\ "dados_pesquisa_real" \notin DOMAIN ai_analysis
    /\ "sistemas_utilizados" \notin DOMAIN ai_analysis
    /\ "insights_exclusivos" \in DOMAIN ai_analysis
    /\ Len(report["insights_exclusivos"].v) > Len(ai_analysis["insights_exclusivos"].v)
    /\ research_data.extracted_content # <<>>

(***************************************************************************)
(* C23: _process_ai_response strips the raw text and, when it holds a      *)
(* fence marker, parses exactly what lies between the first marker (the    *)
(* first JSON-tagged one when there is one, else the first generic one)    *)
(* and the last marker; without a marker it parses the whole stripped      *)
(* text.  For every placement of the markers, a single opening marker      *)
(* without a closing one included.                                         *)
(***************************************************************************)
C23_Marks == {k \in 1..Len(Strip(txt)) : Strip(txt)[k] \in {"F", "kF", "kJ"}}
C23_TaggedMarks ==
    {k \in C23_Marks : \/ Strip(txt)[k] = "kJ"
                       \/ /\ Strip(txt)[k] = "F"
                          /\ k < Len(Strip(txt))
                          /\ Strip(txt)[k + 1] = "j"}
C23_First ==
    LET from == IF C23_TaggedMarks # {} THEN C23_TaggedMarks ELSE C23_Marks
    IN CHOOSE k \in from : \A l \in from : k <= l
C23_Last == CHOOSE k \in C23_Marks : \A l \in C23_Marks : l <= k

\* the content between the two markers; a marker that sits inside a member
\* of an object leaves a fragment of that member on its side
C23_Content ==
    IF C23_Marks = {} THEN Strip(txt)
    ELSE IF C23_Last <= C23_First THEN <<>>
    ELSE (IF Strip(txt)[C23_First] = "F"
            THEN SubSeq(Strip(txt),
                        C23_First + (IF C23_First \in C23_TaggedMarks THEN 2 ELSE 1),
                        C23_Last - 1)
            ELSE <<"frag">> \o SubSeq(Strip(txt), C23_First + 1, C23_Last - 1))
         \o (IF Strip(txt)[C23_Last] = "F" THEN <<>> ELSE <<"frag">>)

C23_Parsed == json_loads(Strip(C23_Content))

C23_ParsesBetweenFirstAndLastMarker ==
    pc = "recovered" =>
       /\ C23_Parsed.kind = "object" =>
             /\ out.kind = "ok"
             /\ (DOMAIN out.val) \ {"metadata_ai"} = (DOMAIN C23_Parsed.val) \ {"metadata_ai"}
             /\ \A k \in (DOMAIN C23_Parsed.val) \ {"metadata_ai"} :
                   out.val[k] = C23_Parsed.val[k]
             /\ "metadata_ai" \in DOMAIN out.val
       /\ C23_Parsed.kind = "value" => out.kind = "TypeError"
       /\ C23_Parsed.kind = "JSONDecodeError" =>
             /\ out.kind = "ok"
             /\ "raw_ai_response" \in DOMAIN out.val
             /\ "metadata_ai" \notin DOMAIN out.val

\* one JSON-tagged opening marker, an object, no closing marker: nothing
\* lies between the first and the last marker and the parse fails
C23_Witness ==
    /\ pc = "recovered"
    /\ parts.pre = <<"p", "w">>
    /\ parts.open = <<"F", "j">>
    /\ parts.doc = <<"{", "kA", "}">>
    /\ parts.close = <<>>
    /\ parts.post = <<"w">>
    /\ C23_First = C23_Last
    /\ out.kind = "ok"
    /\ "raw_ai_response" \in DOMAIN out.val

(***************************************************************************)
(* C24: with the search collaborator entirely absent no search and no      *)
(* extraction call is made, the bundle is empty and the run still returns  *)
(* a report without raising (a model collaborator being configured and    *)
(* the reads of its status all succeeding).                                *)
(***************************************************************************)
C24_AiStatusReadsSucceed ==
    \A k \in CallsOf("get_provider_status") : calls[k].arg = "ai" => calls[k].res = "ok"

C24_AbsentSearchIsAStageFailure ==
    (pc = "done" /\ ~systems_enabled.search_manager /\ systems_enabled.ai_manager
        /\ C24_AiStatusReadsSucceed) =>
        /\ SearchCalls = {}
        /\ CallsOf("extract_content") = {}
        /\ research_data = EmptyBundle
        /\ outcome = "returned"

(***************************************************************************)
(* C25: at every point of the run, also after a search or an extraction    *)
(* raised part-way, the bundle's total_content_length is the sum of the    *)
(* content lengths of the pages in extracted_content, every page has       *)
(* non-empty content and every page's URL is the URL of a search result    *)
(* of the bundle.                                                          *)
(***************************************************************************)
RECURSIVE C25_SumOfLengths(_)
C25_SumOfLengths(pages) ==
    IF pages = <<>> THEN 0
    ELSE pages[Len(pages)].content_len
           + C25_SumOfLengths(SubSeq(pages, 1, Len(pages) - 1))

C25_BundleIsConsistent ==
    /\ research_data.total_content_length =
          C25_SumOfLengths(research_data.extracted_content)
    /\ \A k \in DOMAIN research_data.extracted_content :
          /\ research_data.extracted_content[k].content_len > 0
          /\ \E r \in DOMAIN research_data.search_results :
                /\ HasUrl(research_data.search_results[r])
                /\ research_data.search_results[r].url =
                      research_data.extracted_content[k].url

\* the collector is over, an extraction raised part-way and at least two
\* pages had been kept
C25_Witness ==
    /\ pc \notin CollectorPositions
    /\ ExtractionRaised
    /\ Len(research_data.extracted_content) >= 2
    /\ research_data.total_content_length >= 2

(***************************************************************************)
(* C26: degradation never raises the score: for the same request and       *)
(* bundle, the report of a well-formed response that fills every top-level *)
(* section of the prompt's schema scores at least as much as the report    *)
(* built from the basic analysis, which scores at least as much as the     *)
(* emergency report.                                                       *)
(***************************************************************************)
C26_BasicReport ==
    ConsolidateComprehensiveAnalysis(research_data, GenerateBasicAnalysis(data),
                                     ProviderStatus("ai"), ProviderStatus("search"))

C26_DegradationNeverRaisesScore ==
    (pc = "done" /\ outcome = "returned" /\ error = "" /\ ai_response = SchemaText) =>
        /\ C26_BasicReport.kind = "ok"
        /\ CalculateQualityScore(C26_BasicReport.val).kind = "ok"
        /\ report["metadata"].quality_score >= CalculateQualityScore(C26_BasicReport.val).val
        /\ CalculateQualityScore(C26_BasicReport.val).val >= EmergencyScore

(***************************************************************************)
(* C27: no pipeline path populates the two research keys the scorer        *)
(* rewards: in every returned report, whatever the collaborators return,   *)
(* neither 'pesquisa_web_detalhada' nor 'pesquisa_profunda' is present and *)
(* metadata.quality_score never exceeds 80.                                *)
(***************************************************************************)
C27_ScoredResearchKeys == {"pesquisa_web_detalhada", "pesquisa_profunda"}
C27_SectionCeiling == 4 * 15 + 20

\* the claim as stated
C27_ScoredResearchKeysNeverPresent ==
    (pc = "done" /\ outcome = "returned") =>
        /\ C27_ScoredResearchKeys \cap DOMAIN report = {}
        /\ report["metadata"].quality_score <= C27_SectionCeiling

\* the engine itself never writes either key: a returned report holds one
\* only when the object parsed from the model's response carried it, with
\* the model's value; a report without them scores at most 80 and the
\* emergency report never holds them
C27_ScoredResearchKeysNeverPresent_Amended ==
    (pc = "done" /\ outcome = "returned") =>
        /\ \A key \in C27_ScoredResearchKeys \cap DOMAIN report :
              /\ error = ""
              /\ key \in DOMAIN ai_analysis
              /\ report[key] = ai_analysis[key]
              /\ \E k \in CallsOf("generate_analysis") : calls[k].res = "text"
        /\ C27_ScoredResearchKeys \cap DOMAIN report = {} =>
              report["metadata"].quality_score <= C27_SectionCeiling

\* a normal report built on search results and extracted pages, without
\* either key, at the ceiling of 80
C27_Witness ==
    /\ pc = "done" /\ outcome = "returned" /\ error = ""
    /\ research_data.search_results # <<>>
    /\ research_data.extracted_content # <<>>
    /\ C27_ScoredResearchKeys \cap DOMAIN report = {}
    /\ report["metadata"].quality_score = C27_SectionCeiling

====
